---- MODULE Spec2Model ----
(***************************************************************************)
(* Model of the full RLNC engine of the rlnc crate: GF(2^8) arithmetic,    *)
(* Encoder, Recoder, DecoderMatrix (incremental Gaussian elimination) and  *)
(* Decoder.  Bytes are naturals in 0..255; vectors are sequences, indexed  *)
(* from 1 where the Rust code indexes from 0.                              *)
(***************************************************************************)
EXTENDS Integers, Sequences, FiniteSets, TLC

\* ------------------------------------------------------------------------
\* Bounds of the model
\* ------------------------------------------------------------------------
MaxDataLen == 1
MaxPieceCount == 3
MaxReceived == 3
MaxBadLen == 1
MaxKept == 2
MaxArgLen == 4
MaxArgCount == 3
MaxVecLen == 33

\* Byte values the original data is drawn from (0x81 and 0 included).
DataBytes == {0, 129}
\* Coefficients the coding vectors are drawn from: all of Coef up to
\* MaxRichPieceCount pieces, BitCoef for larger piece counts.
Coef == {0, 1, 2}
BitCoef == {0, 1}
MaxRichPieceCount == 1
\* Coefficients the recoding vectors are drawn from.
RecodingCoef == {1, 2}

\* ------------------------------------------------------------------------
\* GF(2^8): common/gf256.rs
\* ------------------------------------------------------------------------
GF256_ORDER == 256

BOUNDARY_MARKER == 129

GF256_LOG_TABLE ==
  <<0, 0, 1, 25, 2, 50, 26, 198, 3, 223, 51, 238, 27, 104, 199, 75, 4, 100, 224, 14, 52, 141, 239, 129,
    28, 193, 105, 248, 200, 8, 76, 113, 5, 138, 101, 47, 225, 36, 15, 33, 53, 147, 142, 218, 240, 18, 130, 69,
    29, 181, 194, 125, 106, 39, 249, 185, 201, 154, 9, 120, 77, 228, 114, 166, 6, 191, 139, 98, 102, 221, 48, 253,
    226, 152, 37, 179, 16, 145, 34, 136, 54, 208, 148, 206, 143, 150, 219, 189, 241, 210, 19, 92, 131, 56, 70, 64,
    30, 66, 182, 163, 195, 72, 126, 110, 107, 58, 40, 84, 250, 133, 186, 61, 202, 94, 155, 159, 10, 21, 121, 43,
    78, 212, 229, 172, 115, 243, 167, 87, 7, 112, 192, 247, 140, 128, 99, 13, 103, 74, 222, 237, 49, 197, 254, 24,
    227, 165, 153, 119, 38, 184, 180, 124, 17, 68, 146, 217, 35, 32, 137, 46, 55, 63, 209, 91, 149, 188, 207, 205,
    144, 135, 151, 178, 220, 252, 190, 97, 242, 86, 211, 171, 20, 42, 93, 158, 132, 60, 57, 83, 71, 109, 65, 162,
    31, 45, 67, 216, 183, 123, 164, 118, 196, 23, 73, 236, 127, 12, 111, 246, 108, 161, 59, 82, 41, 157, 85, 170,
    251, 96, 134, 177, 187, 204, 62, 90, 203, 89, 95, 176, 156, 169, 160, 81, 11, 245, 22, 235, 122, 117, 44, 215,
    79, 174, 213, 233, 230, 231, 173, 232, 116, 214, 244, 234, 168, 80, 88, 175>>

GF256_EXP_TABLE ==
  <<1, 2, 4, 8, 16, 32, 64, 128, 29, 58, 116, 232, 205, 135, 19, 38, 76, 152, 45, 90, 180, 117, 234, 201,
    143, 3, 6, 12, 24, 48, 96, 192, 157, 39, 78, 156, 37, 74, 148, 53, 106, 212, 181, 119, 238, 193, 159, 35,
    70, 140, 5, 10, 20, 40, 80, 160, 93, 186, 105, 210, 185, 111, 222, 161, 95, 190, 97, 194, 153, 47, 94, 188,
    101, 202, 137, 15, 30, 60, 120, 240, 253, 231, 211, 187, 107, 214, 177, 127, 254, 225, 223, 163, 91, 182, 113, 226,
    217, 175, 67, 134, 17, 34, 68, 136, 13, 26, 52, 104, 208, 189, 103, 206, 129, 31, 62, 124, 248, 237, 199, 147,
    59, 118, 236, 197, 151, 51, 102, 204, 133, 23, 46, 92, 184, 109, 218, 169, 79, 158, 33, 66, 132, 21, 42, 84,
    168, 77, 154, 41, 82, 164, 85, 170, 73, 146, 57, 114, 228, 213, 183, 115, 230, 209, 191, 99, 198, 145, 63, 126,
    252, 229, 215, 179, 123, 246, 241, 255, 227, 219, 171, 75, 150, 49, 98, 196, 149, 55, 110, 220, 165, 87, 174, 65,
    130, 25, 50, 100, 200, 141, 7, 14, 28, 56, 112, 224, 221, 167, 83, 166, 81, 162, 89, 178, 121, 242, 249, 239,
    195, 155, 43, 86, 172, 69, 138, 9, 18, 36, 72, 144, 61, 122, 244, 245, 247, 243, 251, 235, 203, 139, 11, 22,
    44, 88, 176, 125, 250, 233, 207, 131, 27, 54, 108, 216, 173, 71, 142, 1, 2, 4, 8, 16, 32, 64, 128, 29,
    58, 116, 232, 205, 135, 19, 38, 76, 152, 45, 90, 180, 117, 234, 201, 143, 3, 6, 12, 24, 48, 96, 192, 157,
    39, 78, 156, 37, 74, 148, 53, 106, 212, 181, 119, 238, 193, 159, 35, 70, 140, 5, 10, 20, 40, 80, 160, 93,
    186, 105, 210, 185, 111, 222, 161, 95, 190, 97, 194, 153, 47, 94, 188, 101, 202, 137, 15, 30, 60, 120, 240, 253,
    231, 211, 187, 107, 214, 177, 127, 254, 225, 223, 163, 91, 182, 113, 226, 217, 175, 67, 134, 17, 34, 68, 136, 13,
    26, 52, 104, 208, 189, 103, 206, 129, 31, 62, 124, 248, 237, 199, 147, 59, 118, 236, 197, 151, 51, 102, 204, 133,
    23, 46, 92, 184, 109, 218, 169, 79, 158, 33, 66, 132, 21, 42, 84, 168, 77, 154, 41, 82, 164, 85, 170, 73,
    146, 57, 114, 228, 213, 183, 115, 230, 209, 191, 99, 198, 145, 63, 126, 252, 229, 215, 179, 123, 246, 241, 255, 227,
    219, 171, 75, 150, 49, 98, 196, 149, 55, 110, 220, 165, 87, 174, 65, 130, 25, 50, 100, 200, 141, 7, 14, 28,
    56, 112, 224, 221, 167, 83, 166, 81, 162, 89, 178, 121, 242, 249, 239, 195, 155, 43, 86, 172, 69, 138, 9, 18,
    36, 72, 144, 61, 122, 244, 245, 247, 243, 251, 235, 203, 139, 11, 22, 44, 88, 176, 125, 250, 233, 207, 131, 27,
    54, 108, 216, 173, 71, 142>>

RECURSIVE BitXor(_, _, _)
BitXor(a, b, n) ==
  IF n = 0 THEN 0
  ELSE ((a + b) % 2) + 2 * BitXor(a \div 2, b \div 2, n - 1)

\* Gf256::add / sub : XOR of the two bytes
XorTable == [a \in 0..(GF256_ORDER - 1) |-> [b \in 0..(GF256_ORDER - 1) |-> BitXor(a, b, 8)]]

gf_add(a, b) == XorTable[a][b]

\* Gf256::sub : XOR of the two bytes
gf_sub(a, b) == BitXor(a, b, 8)

\* Option<Gf256>::None
None == -1

\* Gf256::primitive_element
primitive_element == 2

\* variant: the sum of the two logarithms wrapped to a byte
mul_const_wrapping_index(a, b) ==
  IF a = 0 \/ b = 0 THEN 0
  ELSE GF256_EXP_TABLE[((GF256_LOG_TABLE[a + 1] + GF256_LOG_TABLE[b + 1])
                          % GF256_ORDER) + 1]

\* Gf256::mul_const
mul_const(a, b) ==
  IF a = 0 \/ b = 0 THEN 0
  ELSE GF256_EXP_TABLE[GF256_LOG_TABLE[a + 1] + GF256_LOG_TABLE[b + 1] + 1]

\* variant: the exponent taken from GF256_ORDER instead of GF256_ORDER - 1
gf_inv_order_exponent(a) ==
  IF a = 0 THEN None
  ELSE GF256_EXP_TABLE[GF256_ORDER - GF256_LOG_TABLE[a + 1] + 1]

\* Gf256::inv
gf_inv(a) ==
  IF a = 0 THEN None
  ELSE GF256_EXP_TABLE[(GF256_ORDER - 1) - GF256_LOG_TABLE[a + 1] + 1]

\* Gf256::div : rhs.inv().map(|rhs_inv| self * rhs_inv)
gf_div(a, b) ==
  IF gf_inv(b) = None THEN None ELSE mul_const(a, gf_inv(b))

Min(a, b) == IF a < b THEN a ELSE b

\* a function over 1..n as an explicit sequence value
Vec(f) == f \o << >>

\* gf256_inplace_add_vectors: dst[i] ^= src[i] over the zipped prefix
gf256_inplace_add_vectors(dst, src) ==
  Vec([k \in 1..Len(dst) |->
         IF k <= Len(src) THEN gf_add(dst[k], src[k]) ELSE dst[k]])

\* gf256_inplace_mul_vec_by_scalar
gf256_inplace_mul_vec_by_scalar(vec, scalar) ==
  IF Len(vec) = 0 THEN vec
  ELSE IF scalar = 0 THEN Vec([k \in 1..Len(vec) |-> 0])
  ELSE IF scalar = 1 THEN vec
  ELSE Vec([k \in 1..Len(vec) |-> mul_const(vec[k], scalar)])

\* gf256_inplace_mul_vec_by_scalar_then_add_into_vec
gf256_inplace_mul_vec_by_scalar_then_add_into_vec(add_into_vec, mul_vec, scalar) ==
  IF Len(add_into_vec) = 0 THEN add_into_vec
  ELSE IF scalar = 0 THEN add_into_vec
  ELSE IF scalar = 1 THEN gf256_inplace_add_vectors(add_into_vec, mul_vec)
  ELSE Vec([k \in 1..Len(add_into_vec) |->
              IF k <= Len(mul_vec)
              THEN gf_add(add_into_vec[k], mul_const(mul_vec[k], scalar))
              ELSE add_into_vec[k]])

\* ------------------------------------------------------------------------
\* Vector kernels with their AVX2 / SSSE3 lanes: common/simd.rs,
\* common/simd_mul_table.rs
\* ------------------------------------------------------------------------
GF256_HALF_ORDER == 16

\* variant: the high table built from the unshifted column index
generate_gf256_simd_mul_table_unshifted(is_low_part, row_idx, col_idx) ==
  mul_const(row_idx, col_idx % GF256_HALF_ORDER)

\* generate_gf256_simd_mul_table(is_low_part)[row_idx][col_idx]: columns
\* 16..31 repeat columns 0..15
generate_gf256_simd_mul_table(is_low_part, row_idx, col_idx) ==
  LET c == col_idx % GF256_HALF_ORDER
  IN IF is_low_part THEN mul_const(row_idx, c)
     ELSE mul_const(row_idx, (c * 16) % GF256_ORDER)

\* one row of GF256_SIMD_MUL_TABLE_LOW / _HIGH, as loaded into a register
GF256_SIMD_MUL_TABLE_LOW(scalar) ==
  Vec([c \in 1..(2 * GF256_HALF_ORDER) |->
         generate_gf256_simd_mul_table(TRUE, scalar, c - 1)])

GF256_SIMD_MUL_TABLE_HIGH(scalar) ==
  Vec([c \in 1..(2 * GF256_HALF_ORDER) |->
         generate_gf256_simd_mul_table(FALSE, scalar, c - 1)])

\* _mm_and_si128 / _mm256_and_si256 with the mask set1_epi8(0x0f)
mm_and_l_mask(reg) == Vec([p \in 1..Len(reg) |-> reg[p] % 16])

\* _mm_srli_epi64 / _mm256_srli_epi64 (reg, 4): each 64-bit lane shifted
\* right by four bits, the low nibble of the next byte of the lane moving in
mm_srli_epi64_4(reg) ==
  Vec([p \in 1..Len(reg) |->
         (reg[p] \div 16)
         + (IF p % 8 # 0 THEN (reg[p + 1] % 16) * 16 ELSE 0)])

\* _mm_shuffle_epi8 / _mm256_shuffle_epi8: per 128-bit lane, byte p takes
\* the table byte selected by the low four bits of idx[p], or 0 when the top
\* bit of idx[p] is set
mm_shuffle_epi8(tbl, idx) ==
  Vec([p \in 1..Len(idx) |->
         IF idx[p] >= 128 THEN 0
         ELSE tbl[GF256_HALF_ORDER * ((p - 1) \div GF256_HALF_ORDER)
                  + (idx[p] % 16) + 1]])

\* _mm_xor_si128 / _mm256_xor_si256
mm_xor(a, b) == Vec([p \in 1..Len(a) |-> gf_add(a[p], b[p])])

\* the lane body of the multiplication kernels: one register times the
\* scalar whose table rows are loaded in l_tbl and h_tbl
ScaleLane(chunk, l_tbl, h_tbl) ==
  LET chunk_simd_lo == mm_shuffle_epi8(l_tbl, mm_and_l_mask(chunk))
      chunk_simd_hi == mm_shuffle_epi8(h_tbl,
                                       mm_and_l_mask(mm_srli_epi64_4(chunk)))
  IN mm_xor(chunk_simd_lo, chunk_simd_hi)

\* is_x86_feature_detected!: the path taken, and its lane width in bytes
SimdPaths == {"avx2", "ssse3", "scalar"}

LaneWidth(path) ==
  IF path = "avx2" THEN 2 * GF256_HALF_ORDER ELSE GF256_HALF_ORDER

\* slice.chunks_exact(width): chunk c (0-based) and the remainder
ChunkOf(vec, width, c) == SubSeq(vec, c * width + 1, (c + 1) * width)

RemainderOf(vec, width) ==
  SubSeq(vec, (Len(vec) \div width) * width + 1, Len(vec))

\* the first n chunks of vec times the scalar, lane by lane from chunk c
RECURSIVE ScaleLanes(_, _, _, _, _, _)
ScaleLanes(vec, width, l_tbl, h_tbl, c, n) ==
  IF c >= n THEN << >>
  ELSE ScaleLane(ChunkOf(vec, width, c), l_tbl, h_tbl)
       \o ScaleLanes(vec, width, l_tbl, h_tbl, c + 1, n)

\* the bytes of vec times the scalar, one mul_const each
ScaleBytes(vec, scalar) ==
  Vec([k \in 1..Len(vec) |-> mul_const(vec[k], scalar)])

\* gf256_inplace_mul_vec_by_scalar on the given path
gf256_inplace_mul_vec_by_scalar_on(path, vec, scalar) ==
  IF Len(vec) = 0 THEN vec
  ELSE IF scalar = 0 THEN Vec([k \in 1..Len(vec) |-> 0])
  ELSE IF scalar = 1 THEN vec
  ELSE IF path = "scalar" THEN ScaleBytes(vec, scalar)
  ELSE LET w == LaneWidth(path)
           l_tbl == SubSeq(GF256_SIMD_MUL_TABLE_LOW(scalar), 1, w)
           h_tbl == SubSeq(GF256_SIMD_MUL_TABLE_HIGH(scalar), 1, w)
       IN ScaleLanes(vec, w, l_tbl, h_tbl, 0, Len(vec) \div w)
          \o ScaleBytes(RemainderOf(vec, w), scalar)

\* the zipped lanes, then the zipped remainders, of the two-slice kernels:
\* lanes holds what is folded into dst over the zipped chunk pairs, rem what
\* is folded in from the remainder of src; into_remainder() of dst is the
\* tail past the last full lane of dst
ZipLanesThenRemainders(width, vec_dst, lanes, rem) ==
  LET rem_from == (Len(vec_dst) \div width) * width
  IN Vec([k \in 1..Len(vec_dst) |->
            IF k <= Len(lanes) THEN gf_add(vec_dst[k], lanes[k])
            ELSE IF k > rem_from /\ k - rem_from <= Len(rem)
            THEN gf_add(vec_dst[k], rem[k - rem_from])
            ELSE vec_dst[k]])

\* gf256_inplace_add_vectors on the given path
gf256_inplace_add_vectors_on(path, vec_dst, vec_src) ==
  IF path = "scalar"
  THEN ZipLanesThenRemainders(1, vec_dst,
                              SubSeq(vec_src, 1,
                                     Min(Len(vec_dst), Len(vec_src))),
                              << >>)
  ELSE LET w == LaneWidth(path)
           pairs == Min(Len(vec_dst) \div w, Len(vec_src) \div w)
       IN ZipLanesThenRemainders(w, vec_dst, SubSeq(vec_src, 1, pairs * w),
                                 RemainderOf(vec_src, w))

\* gf256_inplace_mul_vec_by_scalar_then_add_into_vec on the given path
gf256_inplace_mul_vec_by_scalar_then_add_into_vec_on(path, add_into_vec, mul_vec, scalar) ==
  IF Len(add_into_vec) = 0 THEN add_into_vec
  ELSE IF scalar = 0 THEN add_into_vec
  ELSE IF scalar = 1
  THEN gf256_inplace_add_vectors_on(path, add_into_vec, mul_vec)
  ELSE IF path = "scalar"
  THEN ZipLanesThenRemainders(
         1, add_into_vec,
         ScaleBytes(SubSeq(mul_vec, 1,
                           Min(Len(add_into_vec), Len(mul_vec))), scalar),
         << >>)
  ELSE LET w == LaneWidth(path)
           l_tbl == SubSeq(GF256_SIMD_MUL_TABLE_LOW(scalar), 1, w)
           h_tbl == SubSeq(GF256_SIMD_MUL_TABLE_HIGH(scalar), 1, w)
           pairs == Min(Len(add_into_vec) \div w, Len(mul_vec) \div w)
       IN ZipLanesThenRemainders(
            w, add_into_vec,
            ScaleLanes(mul_vec, w, l_tbl, h_tbl, 0, pairs),
            ScaleBytes(RemainderOf(mul_vec, w), scalar))

\* ------------------------------------------------------------------------
\* Encoder: full/encoder.rs
\* ------------------------------------------------------------------------
SubSeqFrom(s, from) == SubSeq(s, from, Len(s))

\* variant: the quotient rounded down
div_rounds_down(a, b) == a \div b

div_ceil(a, b) == (a + b - 1) \div b

\* Encoder::new (data non-empty, piece_count > 0 are the Ok inputs)
Encoder_new(data, piece_count) ==
  IF Len(data) = 0 THEN [err |-> "DataLengthZero"]
  ELSE IF piece_count = 0 THEN [err |-> "PieceCountZero"]
  ELSE
    LET in_data_len == Len(data)
        piece_byte_len == div_ceil(in_data_len + 1, piece_count)
        padded_data_len == piece_count * piece_byte_len
        resized == [k \in 1..padded_data_len |->
                      IF k <= in_data_len THEN data[k] ELSE 0]
    IN [err |-> "Ok",
        data |-> Vec([resized EXCEPT ![in_data_len + 1] = BOUNDARY_MARKER]),
        piece_count |-> piece_count,
        piece_byte_len |-> piece_byte_len]

\* Encoder::without_padding
Encoder_without_padding(data, piece_count) ==
  IF Len(data) = 0 THEN [err |-> "DataLengthZero"]
  ELSE IF piece_count = 0 THEN [err |-> "PieceCountZero"]
  ELSE
    LET in_data_len == Len(data)
        piece_byte_len == in_data_len \div piece_count
    IN IF piece_byte_len * piece_count # in_data_len
       THEN [err |-> "DataLengthMismatch"]
       ELSE [err |-> "Ok", data |-> data, piece_count |-> piece_count,
             piece_byte_len |-> piece_byte_len]

\* variant: each scaled chunk overwrites coded_piece instead of being added
RECURSIVE AccumulatePieces_overwrite(_, _, _, _)
AccumulatePieces_overwrite(e, coding_vector, i, coded_piece) ==
  IF i > Min(Len(e.data) \div e.piece_byte_len, Len(coding_vector))
  THEN coded_piece
  ELSE AccumulatePieces_overwrite(e, coding_vector, i + 1,
         Vec([k \in 1..Len(coded_piece) |->
                mul_const(e.data[(i - 1) * e.piece_byte_len + k],
                          coding_vector[i])]))

\* Encoder::get_full_coded_piece_byte_len
Encoder_get_full_coded_piece_byte_len(e) == e.piece_count + e.piece_byte_len

\* The accumulation loop of code_with_coding_vector: chunks_exact(L) zipped
\* with the coding vector, each chunk scaled and XORed into coded_piece.
RECURSIVE AccumulatePieces(_, _, _, _)
AccumulatePieces(e, coding_vector, i, coded_piece) ==
  IF i > Min(Len(e.data) \div e.piece_byte_len, Len(coding_vector))
  THEN coded_piece
  ELSE AccumulatePieces(e, coding_vector, i + 1,
         Vec([k \in 1..Len(coded_piece) |->
                gf_add(coded_piece[k],
                       mul_const(e.data[(i - 1) * e.piece_byte_len + k],
                                 coding_vector[i]))]))

\* Encoder::code_with_coding_vector
code_with_coding_vector(e, coding_vector) ==
  IF Len(coding_vector) # e.piece_count
  THEN [err |-> "CodingVectorLengthMismatch"]
  ELSE [err |-> "Ok",
        piece |-> coding_vector \o
                  AccumulatePieces(e, coding_vector, 1,
                                   Vec([k \in 1..e.piece_byte_len |-> 0]))]

\* ------------------------------------------------------------------------
\* DecoderMatrix: full/decoder_matrix.rs
\* A matrix is a record [elements, rows, cols, num_pieces_coded_together].
\* ------------------------------------------------------------------------
DecoderMatrix_new(num_pieces_coded_together, piece_byte_length) ==
  [num_pieces_coded_together |-> num_pieces_coded_together,
   rows |-> 0,
   cols |-> num_pieces_coded_together + piece_byte_length,
   elements |-> << >>]

\* Index<(usize, usize)>: elements[row_idx * cols + col_idx]
At(m, row_idx, col_idx) == m.elements[row_idx * m.cols + col_idx + 1]

\* the slice elements[from..to) (0-based, end exclusive)
Slice(s, from, to) == SubSeq(s, from + 1, to)

\* elements with elements[from..from+Len(v)) replaced by v
Splice(s, from, v) ==
  SubSeq(s, 1, from) \o v \o SubSeq(s, from + Len(v) + 1, Len(s))

\* DecoderMatrix::add_row
add_row(m, row) ==
  IF Len(row) # m.cols THEN [err |-> "InvalidPieceLength", m |-> m]
  ELSE [err |-> "Ok",
        m |-> [m EXCEPT !.elements = m.elements \o row, !.rows = m.rows + 1]]

\* DecoderMatrix::swap_rows (row1_idx < row2_idx)
swap_rows(m, row1_idx, row2_idx) ==
  LET row1 == Slice(m.elements, row1_idx * m.cols, row1_idx * m.cols + m.cols)
      row2 == Slice(m.elements, row2_idx * m.cols, row2_idx * m.cols + m.cols)
  IN [m EXCEPT !.elements =
        Splice(Splice(m.elements, row1_idx * m.cols, row2),
               row2_idx * m.cols, row1)]

\* The row operation shared by both passes:
\* row j[i..] ^= quotient * row i[i..], quotient = m[j,i] / m[i,i]
EliminateRow(m, i, j) ==
  LET quotient == gf_div(At(m, j, i), At(m, i, i))
      i_th_row == Slice(m.elements, i * m.cols + i, i * m.cols + m.cols)
      j_th_row == Slice(m.elements, j * m.cols + i, j * m.cols + m.cols)
  IN [m EXCEPT !.elements =
        Splice(m.elements, j * m.cols + i,
               gf256_inplace_mul_vec_by_scalar_then_add_into_vec(
                 j_th_row, i_th_row, quotient))]

\* variant: the pivot row searched from the top of the matrix
FindPivotRow_from_top(m, i, pivot_row_idx) ==
  IF \A r \in 0..(m.rows - 1) : At(m, r, i) = 0 THEN m.rows
  ELSE CHOOSE r \in 0..(m.rows - 1) :
         /\ At(m, r, i) # 0
         /\ \A q \in 0..(r - 1) : At(m, q, i) = 0

\* while pivot_row_idx < rows: first row at or below pivot_row_idx whose
\* column i is non-zero; rows when there is none
RECURSIVE FindPivotRow(_, _, _)
FindPivotRow(m, i, pivot_row_idx) ==
  IF pivot_row_idx >= m.rows THEN m.rows
  ELSE IF At(m, pivot_row_idx, i) # 0 THEN pivot_row_idx
  ELSE FindPivotRow(m, i, pivot_row_idx + 1)

\* for j in (i + 1)..rows of clean_forward
RECURSIVE ForwardInner(_, _, _)
ForwardInner(m, i, j) ==
  IF j >= m.rows THEN m
  ELSE IF At(m, j, i) = 0 THEN ForwardInner(m, i, j + 1)
  ELSE ForwardInner(EliminateRow(m, i, j), i, j + 1)

\* for i in 0..boundary of clean_forward
RECURSIVE ForwardOuter(_, _)
ForwardOuter(m, i) ==
  IF i >= Min(m.rows, m.cols) THEN m
  ELSE IF At(m, i, i) = 0
       THEN LET pivot_row_idx == FindPivotRow(m, i, i + 1)
            IN IF pivot_row_idx >= m.rows
               THEN ForwardOuter(m, i + 1)
               ELSE ForwardOuter(
                      ForwardInner(swap_rows(m, i, pivot_row_idx), i, i + 1),
                      i + 1)
       ELSE ForwardOuter(ForwardInner(m, i, i + 1), i + 1)

clean_forward(m) == ForwardOuter(m, 0)

\* variant: no back-substitution into the rows above the pivot
BackwardInner_skipped(m, i, j) == m

\* for j in 0..i of clean_backward
RECURSIVE BackwardInner(_, _, _)
BackwardInner(m, i, j) ==
  IF j >= i THEN m
  ELSE IF At(m, j, i) = 0 THEN BackwardInner(m, i, j + 1)
  ELSE BackwardInner(EliminateRow(m, i, j), i, j + 1)

\* variant: the pivot set to one, the rest of the row left unscaled
NormalizeRow_pivot_only(m, i) ==
  [m EXCEPT !.elements = Vec([m.elements EXCEPT ![i * m.cols + i + 1] = 1])]

\* pivot normalisation at the end of one clean_backward iteration
NormalizeRow(m, i) ==
  IF At(m, i, i) = 1 THEN m
  ELSE LET inv == gf_inv(At(m, i, i))
           i_th_row == Slice(m.elements, i * m.cols + (i + 1),
                             i * m.cols + m.cols)
       IN [m EXCEPT !.elements =
             Splice(Vec([m.elements EXCEPT ![i * m.cols + i + 1] = 1]),
                    i * m.cols + (i + 1),
                    gf256_inplace_mul_vec_by_scalar(i_th_row, inv))]

\* for i in (0..boundary).rev() of clean_backward; i counts down to 0
RECURSIVE BackwardOuter(_, _)
BackwardOuter(m, i) ==
  IF i < 0 THEN m
  ELSE IF At(m, i, i) = 0 THEN BackwardOuter(m, i - 1)
  ELSE BackwardOuter(NormalizeRow(BackwardInner(m, i, 0), i), i - 1)

clean_backward(m) == BackwardOuter(m, Min(m.rows, m.cols) - 1)

\* a row test that also looks at the payload columns
is_nonzero_row_any_column(m, i) ==
  \E cidx \in 0..(m.cols - 1) : At(m, i, cidx) # 0

\* (0..num_pieces_coded_together).any(|cidx| self[(i, cidx)] != 0)
is_nonzero_row(m, i) ==
  \E cidx \in 0..(m.num_pieces_coded_together - 1) : At(m, i, cidx) # 0

\* the while loop of remove_zero_rows; copy_within moves the tail up and
\* leaves the buffer length as it is
RECURSIVE RemoveLoop(_, _)
RemoveLoop(m, i) ==
  IF i >= m.rows THEN m
  ELSE IF is_nonzero_row(m, i) THEN RemoveLoop(m, i + 1)
  ELSE LET start_idx_of_row_to_remove == i * m.cols
           start_idx_of_next_row == (i + 1) * m.cols
           moved == IF start_idx_of_next_row < Len(m.elements)
                    THEN Splice(m.elements, start_idx_of_row_to_remove,
                                SubSeqFrom(m.elements,
                                           start_idx_of_next_row + 1))
                    ELSE m.elements
       IN RemoveLoop([m EXCEPT !.elements = moved, !.rows = m.rows - 1], i)

\* The unchecked operations of one rref run, in the order the passes reach
\* them: a division or inversion with the pivot E[(i,i)] it divides by, a
\* swap_rows call with its two indices and the row count
Unchecked(kind, a, b, rows) == [kind |-> kind, a |-> a, b |-> b, rows |-> rows]

\* (self[(j, i)] / self[(i, i)]).unwrap_unchecked() in the loop over j of
\* clean_forward
RECURSIVE ForwardInnerUnchecked(_, _, _)
ForwardInnerUnchecked(m, i, j) ==
  IF j >= m.rows THEN {}
  ELSE IF At(m, j, i) = 0 THEN ForwardInnerUnchecked(m, i, j + 1)
  ELSE {Unchecked("div", At(m, i, i), j, m.rows)}
       \cup ForwardInnerUnchecked(EliminateRow(m, i, j), i, j + 1)

\* self.swap_rows(i, pivot_row_idx) and the divisions of clean_forward
RECURSIVE ForwardUnchecked(_, _)
ForwardUnchecked(m, i) ==
  IF i >= Min(m.rows, m.cols) THEN {}
  ELSE IF At(m, i, i) = 0
       THEN LET pivot_row_idx == FindPivotRow(m, i, i + 1)
                swapped == swap_rows(m, i, pivot_row_idx)
            IN IF pivot_row_idx >= m.rows
               THEN ForwardUnchecked(m, i + 1)
               ELSE {Unchecked("swap_rows", i, pivot_row_idx, m.rows)}
                    \cup ForwardInnerUnchecked(swapped, i, i + 1)
                    \cup ForwardUnchecked(ForwardInner(swapped, i, i + 1),
                                          i + 1)
       ELSE ForwardInnerUnchecked(m, i, i + 1)
            \cup ForwardUnchecked(ForwardInner(m, i, i + 1), i + 1)

\* the divisions in the loop over j of clean_backward
RECURSIVE BackwardInnerUnchecked(_, _, _)
BackwardInnerUnchecked(m, i, j) ==
  IF j >= i THEN {}
  ELSE IF At(m, j, i) = 0 THEN BackwardInnerUnchecked(m, i, j + 1)
  ELSE {Unchecked("div", At(m, i, i), j, m.rows)}
       \cup BackwardInnerUnchecked(EliminateRow(m, i, j), i, j + 1)

\* the divisions and self[(i, i)].inv().unwrap_unchecked() of clean_backward
RECURSIVE BackwardUnchecked(_, _)
BackwardUnchecked(m, i) ==
  IF i < 0 THEN {}
  ELSE IF At(m, i, i) = 0 THEN BackwardUnchecked(m, i - 1)
  ELSE LET cleared == BackwardInner(m, i, 0)
       IN BackwardInnerUnchecked(m, i, 0)
          \cup (IF At(cleared, i, i) = 1 THEN {}
                ELSE {Unchecked("inv", At(cleared, i, i), i, m.rows)})
          \cup BackwardUnchecked(NormalizeRow(cleared, i), i - 1)

\* all of them for one rref() call on m
rref_unchecked(m) ==
  ForwardUnchecked(m, 0)
  \cup BackwardUnchecked(clean_forward(m), Min(m.rows, m.cols) - 1)

\* DecoderMatrix::remove_zero_rows
remove_zero_rows(m) ==
  LET r == RemoveLoop(m, 0)
  IN [r EXCEPT !.elements = SubSeq(r.elements, 1, r.rows * r.cols)]

\* DecoderMatrix::rref
rref(m) == remove_zero_rows(clean_backward(clean_forward(m)))

\* DecoderMatrix::rank
rank(m) == m.rows

\* ------------------------------------------------------------------------
\* Decoder: full/decoder.rs
\* A decoder is a record [matrix, piece_byte_len, required_piece_count,
\* received_piece_count, useful_piece_count].
\* ------------------------------------------------------------------------
\* variant: the piece count checked before the piece length
Decoder_new_count_first(piece_byte_len, required_piece_count) ==
  IF required_piece_count = 0 THEN [err |-> "PieceCountZero"]
  ELSE IF piece_byte_len = 0 THEN [err |-> "PieceLengthZero"]
  ELSE [err |-> "Ok",
        d |-> [matrix |-> DecoderMatrix_new(required_piece_count,
                                            piece_byte_len),
               piece_byte_len |-> piece_byte_len,
               required_piece_count |-> required_piece_count,
               received_piece_count |-> 0,
               useful_piece_count |-> 0]]

Decoder_new(piece_byte_len, required_piece_count) ==
  IF piece_byte_len = 0 THEN [err |-> "PieceLengthZero"]
  ELSE IF required_piece_count = 0 THEN [err |-> "PieceCountZero"]
  ELSE [err |-> "Ok",
        d |-> [matrix |-> DecoderMatrix_new(required_piece_count,
                                            piece_byte_len),
               piece_byte_len |-> piece_byte_len,
               required_piece_count |-> required_piece_count,
               received_piece_count |-> 0,
               useful_piece_count |-> 0]]

get_full_coded_piece_byte_len(d) == d.required_piece_count + d.piece_byte_len

get_remaining_piece_count(d) == d.required_piece_count - d.useful_piece_count

\* variant: completion judged by the received count instead of the rank
is_already_decoded_by_received(d) ==
  d.received_piece_count = d.required_piece_count

\* Decoder::is_already_decoded
is_already_decoded(d) == rank(d.matrix) = d.required_piece_count

\* variant: useful_piece_count set from the rank before the row was added
decode_stale_useful(d, full_coded_piece) ==
  IF rank(d.matrix) = d.required_piece_count
  THEN [err |-> "ReceivedAllPieces", d |-> d]
  ELSE IF Len(full_coded_piece) # get_full_coded_piece_byte_len(d)
  THEN [err |-> "InvalidPieceLength", d |-> d]
  ELSE
    LET rank_before == rank(d.matrix)
        matrix == rref(add_row(d.matrix, full_coded_piece).m)
        rank_after == rank(matrix)
        d1 == [d EXCEPT !.matrix = matrix,
                        !.received_piece_count = d.received_piece_count + 1]
    IN IF rank_before = rank_after
       THEN [err |-> "PieceNotUseful", d |-> d1]
       ELSE [err |-> "Ok",
             d |-> [d1 EXCEPT !.useful_piece_count = rank_before]]

\* variant: received_piece_count incremented before the length check
decode_counts_before_length_check(d, full_coded_piece) ==
  IF rank(d.matrix) = d.required_piece_count
  THEN [err |-> "ReceivedAllPieces", d |-> d]
  ELSE IF Len(full_coded_piece) # get_full_coded_piece_byte_len(d)
  THEN [err |-> "InvalidPieceLength",
        d |-> [d EXCEPT !.received_piece_count = d.received_piece_count + 1]]
  ELSE
    LET rank_before == rank(d.matrix)
        matrix == rref(add_row(d.matrix, full_coded_piece).m)
        rank_after == rank(matrix)
        d1 == [d EXCEPT !.matrix = matrix,
                        !.received_piece_count = d.received_piece_count + 1]
    IN IF rank_before = rank_after
       THEN [err |-> "PieceNotUseful", d |-> d1]
       ELSE [err |-> "Ok",
             d |-> [d1 EXCEPT !.useful_piece_count = rank_after]]

\* variant: the length check placed before the completion check
decode_length_check_first(d, full_coded_piece) ==
  IF Len(full_coded_piece) # get_full_coded_piece_byte_len(d)
  THEN [err |-> "InvalidPieceLength", d |-> d]
  ELSE IF rank(d.matrix) = d.required_piece_count
  THEN [err |-> "ReceivedAllPieces", d |-> d]
  ELSE
    LET rank_before == rank(d.matrix)
        matrix == rref(add_row(d.matrix, full_coded_piece).m)
        rank_after == rank(matrix)
        d1 == [d EXCEPT !.matrix = matrix,
                        !.received_piece_count = d.received_piece_count + 1]
    IN IF rank_before = rank_after
       THEN [err |-> "PieceNotUseful", d |-> d1]
       ELSE [err |-> "Ok",
             d |-> [d1 EXCEPT !.useful_piece_count = rank_after]]

\* variant: only useful pieces are counted as received
decode_counts_useful_only(d, full_coded_piece) ==
  IF is_already_decoded(d) THEN [err |-> "ReceivedAllPieces", d |-> d]
  ELSE IF Len(full_coded_piece) # get_full_coded_piece_byte_len(d)
  THEN [err |-> "InvalidPieceLength", d |-> d]
  ELSE
    LET rank_before == rank(d.matrix)
        matrix == rref(add_row(d.matrix, full_coded_piece).m)
        rank_after == rank(matrix)
        d1 == [d EXCEPT !.matrix = matrix]
    IN IF rank_before = rank_after
       THEN [err |-> "PieceNotUseful", d |-> d1]
       ELSE [err |-> "Ok",
             d |-> [d1 EXCEPT !.useful_piece_count = rank_after,
                              !.received_piece_count =
                                d.received_piece_count + 1]]

\* Decoder::decode
decode(d, full_coded_piece) ==
  IF is_already_decoded(d) THEN [err |-> "ReceivedAllPieces", d |-> d]
  ELSE IF Len(full_coded_piece) # get_full_coded_piece_byte_len(d)
  THEN [err |-> "InvalidPieceLength", d |-> d]
  ELSE
    LET rank_before == rank(d.matrix)
        matrix == rref(add_row(d.matrix, full_coded_piece).m)
        rank_after == rank(matrix)
        d1 == [d EXCEPT !.matrix = matrix,
                        !.received_piece_count = d.received_piece_count + 1]
    IN IF rank_before = rank_after
       THEN [err |-> "PieceNotUseful", d |-> d1]
       ELSE [err |-> "Ok",
             d |-> [d1 EXCEPT !.useful_piece_count = rank_after]]

\* chunks_exact(full_coded_piece_len) of the matrix buffer, payload halves
\* concatenated
RECURSIVE ConcatPayloads(_, _, _, _)
ConcatPayloads(elements, full_coded_piece_len, required_piece_count, r) ==
  IF (r + 1) * full_coded_piece_len > Len(elements) THEN << >>
  ELSE Slice(elements, r * full_coded_piece_len + required_piece_count,
             (r + 1) * full_coded_piece_len)
       \o ConcatPayloads(elements, full_coded_piece_len,
                         required_piece_count, r + 1)

\* variant: position counted from the first marker instead of the last
rev_position_first_marker(decoded_data) ==
  IF \E k \in 1..Len(decoded_data) : decoded_data[k] = BOUNDARY_MARKER
  THEN Len(decoded_data)
       - (CHOOSE k \in 1..Len(decoded_data) :
            /\ decoded_data[k] = BOUNDARY_MARKER
            /\ \A k2 \in 1..(k - 1) : decoded_data[k2] # BOUNDARY_MARKER)
  ELSE None

\* iter().rev().position(|b| b == BOUNDARY_MARKER): distance of the last
\* marker from the end, None when there is no marker
rev_position(decoded_data) ==
  IF \E k \in 1..Len(decoded_data) : decoded_data[k] = BOUNDARY_MARKER
  THEN Len(decoded_data)
       - (CHOOSE k \in 1..Len(decoded_data) :
            /\ decoded_data[k] = BOUNDARY_MARKER
            /\ \A k2 \in (k + 1)..Len(decoded_data) :
                 decoded_data[k2] # BOUNDARY_MARKER)
  ELSE None

\* variant: readiness judged by the received count instead of the rank
get_decoded_data_by_received(d) ==
  IF d.received_piece_count < d.required_piece_count THEN [err |-> "NotAllPiecesReceivedYet"]
  ELSE
    LET full_coded_piece_len == d.required_piece_count + d.piece_byte_len
        decoded_data == ConcatPayloads(d.matrix.elements,
                                       full_coded_piece_len,
                                       d.required_piece_count, 0)
        last_index_of_decoded_data == Len(decoded_data) - 1
        boundary_marker_rev_index ==
          IF rev_position(decoded_data) = None
          THEN last_index_of_decoded_data
          ELSE rev_position(decoded_data)
        boundary_marker_index ==
          last_index_of_decoded_data - boundary_marker_rev_index
    IN IF boundary_marker_index = 0
       THEN [err |-> "InvalidDecodedDataFormat"]
       ELSE IF \E k \in (boundary_marker_index + 2)..Len(decoded_data) :
                  decoded_data[k] # 0
       THEN [err |-> "InvalidDecodedDataFormat"]
       ELSE [err |-> "Ok",
             data |-> SubSeq(decoded_data, 1, boundary_marker_index)]

\* variant: the bytes after the boundary marker are not inspected
get_decoded_data_no_tail_check(d) ==
  IF ~is_already_decoded(d) THEN [err |-> "NotAllPiecesReceivedYet"]
  ELSE
    LET full_coded_piece_len == d.required_piece_count + d.piece_byte_len
        decoded_data == ConcatPayloads(d.matrix.elements,
                                       full_coded_piece_len,
                                       d.required_piece_count, 0)
        last_index_of_decoded_data == Len(decoded_data) - 1
        boundary_marker_rev_index ==
          IF rev_position(decoded_data) = None
          THEN last_index_of_decoded_data
          ELSE rev_position(decoded_data)
        boundary_marker_index ==
          last_index_of_decoded_data - boundary_marker_rev_index
    IN IF boundary_marker_index = 0
       THEN [err |-> "InvalidDecodedDataFormat"]
       ELSE [err |-> "Ok",
             data |-> SubSeq(decoded_data, 1, boundary_marker_index)]

\* Decoder::get_decoded_data
get_decoded_data(d) ==
  IF ~is_already_decoded(d) THEN [err |-> "NotAllPiecesReceivedYet"]
  ELSE
    LET full_coded_piece_len == d.required_piece_count + d.piece_byte_len
        decoded_data == ConcatPayloads(d.matrix.elements,
                                       full_coded_piece_len,
                                       d.required_piece_count, 0)
        last_index_of_decoded_data == Len(decoded_data) - 1
        boundary_marker_rev_index ==
          IF rev_position(decoded_data) = None
          THEN last_index_of_decoded_data
          ELSE rev_position(decoded_data)
        boundary_marker_index ==
          last_index_of_decoded_data - boundary_marker_rev_index
    IN IF boundary_marker_index = 0
       THEN [err |-> "InvalidDecodedDataFormat"]
       ELSE IF \E k \in (boundary_marker_index + 2)..Len(decoded_data) :
                  decoded_data[k] # 0
       THEN [err |-> "InvalidDecodedDataFormat"]
       ELSE [err |-> "Ok",
             data |-> SubSeq(decoded_data, 1, boundary_marker_index)]

\* ------------------------------------------------------------------------
\* Recoder: full/recoder.rs
\* A recoder is a record [coding_vectors, encoder, num_pieces_received,
\* full_coded_piece_byte_len, num_pieces_coded_together].
\* ------------------------------------------------------------------------
\* data.chunks_exact(F): the coding-vector halves, flattened
RECURSIVE SplitVectors(_, _, _, _)
SplitVectors(data, full_coded_piece_byte_len, num_pieces_coded_together, r) ==
  IF (r + 1) * full_coded_piece_byte_len > Len(data) THEN << >>
  ELSE Slice(data, r * full_coded_piece_byte_len,
             r * full_coded_piece_byte_len + num_pieces_coded_together)
       \o SplitVectors(data, full_coded_piece_byte_len,
                       num_pieces_coded_together, r + 1)

\* variant: the piece count checked before the full piece length
Recoder_new_count_first(data, full_coded_piece_byte_len, num_pieces_coded_together) ==
  IF Len(data) = 0 THEN [err |-> "NotEnoughPiecesToRecode"]
  ELSE IF num_pieces_coded_together = 0 THEN [err |-> "PieceCountZero"]
  ELSE IF full_coded_piece_byte_len = 0 THEN [err |-> "PieceLengthZero"]
  ELSE IF full_coded_piece_byte_len <= num_pieces_coded_together
  THEN [err |-> "PieceLengthTooShort"]
  ELSE
    LET num_pieces_received == Len(data) \div full_coded_piece_byte_len
        coding_vectors == SplitVectors(data, full_coded_piece_byte_len,
                                       num_pieces_coded_together, 0)
        coded_pieces == ConcatPayloads(data, full_coded_piece_byte_len,
                                       num_pieces_coded_together, 0)
        inner == Encoder_without_padding(coded_pieces, num_pieces_received)
    IN IF inner.err # "Ok"
       THEN [err |-> "UnwrapUncheckedOnErr"]
       ELSE [err |-> "Ok",
             coding_vectors |-> coding_vectors,
             encoder |-> inner,
             num_pieces_received |-> num_pieces_received,
             full_coded_piece_byte_len |-> full_coded_piece_byte_len,
             num_pieces_coded_together |-> num_pieces_coded_together]

\* Recoder::new
Recoder_new(data, full_coded_piece_byte_len, num_pieces_coded_together) ==
  IF Len(data) = 0 THEN [err |-> "NotEnoughPiecesToRecode"]
  ELSE IF full_coded_piece_byte_len = 0 THEN [err |-> "PieceLengthZero"]
  ELSE IF num_pieces_coded_together = 0 THEN [err |-> "PieceCountZero"]
  ELSE IF full_coded_piece_byte_len <= num_pieces_coded_together
  THEN [err |-> "PieceLengthTooShort"]
  ELSE
    LET num_pieces_received == Len(data) \div full_coded_piece_byte_len
        coding_vectors == SplitVectors(data, full_coded_piece_byte_len,
                                       num_pieces_coded_together, 0)
        coded_pieces == ConcatPayloads(data, full_coded_piece_byte_len,
                                       num_pieces_coded_together, 0)
        inner == Encoder_without_padding(coded_pieces, num_pieces_received)
    IN IF inner.err # "Ok"
       THEN [err |-> "UnwrapUncheckedOnErr"]
       ELSE [err |-> "Ok",
             coding_vectors |-> coding_vectors,
             encoder |-> inner,
             num_pieces_received |-> num_pieces_received,
             full_coded_piece_byte_len |-> full_coded_piece_byte_len,
             num_pieces_coded_together |-> num_pieces_coded_together]

\* unwrap_unchecked() on an Err is undefined behaviour.  What a build makes
\* of it: the unsafe-precondition check of a debug build aborts ("Panic");
\* an optimised build reads the Err as if it were the Encoder and goes on,
\* returning Ok with a recoder whose encoder field is not an Encoder.
UnwrapUncheckedOutcomes == {"Panic", "Ok"}

\* every result a call of Recoder::new can have
Recoder_new_outcomes(data, full_coded_piece_byte_len, num_pieces_coded_together) ==
  LET r == Recoder_new(data, full_coded_piece_byte_len,
                       num_pieces_coded_together)
  IN IF r.err # "UnwrapUncheckedOnErr" THEN {r}
     ELSE {IF outcome = "Ok"
           THEN [err |-> "Ok",
                 coding_vectors |-> << >>,
                 encoder |-> [err |-> "NotAnEncoder"],
                 num_pieces_received |->
                   Len(data) \div full_coded_piece_byte_len,
                 full_coded_piece_byte_len |-> full_coded_piece_byte_len,
                 num_pieces_coded_together |-> num_pieces_coded_together]
           ELSE [err |-> outcome] : outcome \in UnwrapUncheckedOutcomes}

\* Recoder::get_num_pieces_recoded_together
Recoder_get_num_pieces_recoded_together(rec) == rec.num_pieces_received

\* Recoder::get_piece_byte_len
Recoder_get_piece_byte_len(rec) ==
  rec.full_coded_piece_byte_len - rec.num_pieces_coded_together

\* variant: row_begins_at left at 0, every term read from the first vector
RECURSIVE FoldCoeff_first_row(_, _, _, _)
FoldCoeff_first_row(rec, random_recoding_vector, coeff_idx, recoding_vec_idx) ==
  IF recoding_vec_idx = 0 THEN 0
  ELSE gf_add(FoldCoeff_first_row(rec, random_recoding_vector, coeff_idx,
                                  recoding_vec_idx - 1),
              mul_const(random_recoding_vector[recoding_vec_idx],
                        rec.coding_vectors[coeff_idx + 1]))

\* the fold of recode: acc + cur * coding_vectors[row_begins_at + coeff_idx]
RECURSIVE FoldCoeff(_, _, _, _)
FoldCoeff(rec, random_recoding_vector, coeff_idx, recoding_vec_idx) ==
  IF recoding_vec_idx = 0 THEN 0
  ELSE gf_add(FoldCoeff(rec, random_recoding_vector, coeff_idx,
                        recoding_vec_idx - 1),
              mul_const(random_recoding_vector[recoding_vec_idx],
                        rec.coding_vectors[
                          (recoding_vec_idx - 1) * rec.num_pieces_coded_together
                          + coeff_idx + 1]))

\* variant: the inner piece's prefix cut at num_pieces_coded_together
\* instead of num_pieces_received
recode_cut_at_coded_together(rec, random_recoding_vector) ==
  LET computed_coding_vector ==
        Vec([j \in 1..rec.num_pieces_coded_together |->
               FoldCoeff(rec, random_recoding_vector, j - 1,
                         Len(random_recoding_vector))])
      full_coded_piece ==
        code_with_coding_vector(rec.encoder, random_recoding_vector).piece
      coded_piece == SubSeqFrom(full_coded_piece,
                                rec.num_pieces_coded_together + 1)
  IN computed_coding_vector \o coded_piece

\* Recoder::recode, the sampled recoding vector being the input
recode(rec, random_recoding_vector) ==
  LET computed_coding_vector ==
        Vec([j \in 1..rec.num_pieces_coded_together |->
               FoldCoeff(rec, random_recoding_vector, j - 1,
                         Len(random_recoding_vector))])
      full_coded_piece ==
        code_with_coding_vector(rec.encoder, random_recoding_vector).piece
      coded_piece == SubSeqFrom(full_coded_piece, rec.num_pieces_received + 1)
  IN computed_coding_vector \o coded_piece

\* ------------------------------------------------------------------------
\* Reference linear algebra over GF(2^8), used by the history variables:
\* a basis is a set of vectors in reduced form (leading entry 1, each
\* leading column zero in the other vectors).
\* ------------------------------------------------------------------------
IsZeroVec(v) == \A k \in 1..Len(v) : v[k] = 0

RECURSIVE LeadFrom(_, _)
LeadFrom(v, k) == IF v[k] # 0 THEN k ELSE LeadFrom(v, k + 1)

\* index of the first non-zero entry of a non-zero vector
Lead(v) == LeadFrom(v, 1)

VecAddScaled(v, w, c) ==
  Vec([k \in 1..Len(v) |-> gf_add(v[k], mul_const(w[k], c))])

RECURSIVE ReduceBy(_, _)
ReduceBy(v, basis) ==
  IF basis = {} THEN v
  ELSE LET b == CHOOSE x \in basis : TRUE
       IN ReduceBy(VecAddScaled(v, b, v[Lead(b)]), basis \ {b})

InSpan(v, basis) == IsZeroVec(ReduceBy(v, basis))

SpanInsert(basis, v) ==
  LET r == ReduceBy(v, basis)
  IN IF IsZeroVec(r) THEN basis
     ELSE LET lead == Lead(r)
              inv == gf_inv(r[lead])
              n == Vec([k \in 1..Len(r) |-> mul_const(r[k], inv)])
          IN {VecAddScaled(b, n, b[lead]) : b \in basis} \cup {n}

TrueRank(basis) == Cardinality(basis)

\* ------------------------------------------------------------------------
\* State
\* ------------------------------------------------------------------------
VARIABLES
  original,    \* the bytes handed to Encoder::new
  encoder,     \* the Encoder
  decoder,     \* the Decoder
  alive,       \* FALSE once get_decoded_data has consumed the decoder
  op,          \* the last operation performed
  result,      \* what it returned
  output,      \* the bytes returned by get_decoded_data
  seen,        \* history: reduced basis of the coding vectors of all
               \* correctly sized pieces the matrix has been given
  indep,       \* history: the last such piece's coding vector was outside
               \* the span of the ones given before it
  kept,        \* full coded pieces set aside for recoding (flat buffer)
  kept_seen,   \* history: every piece in kept was also given to the decoder
  recoder,     \* the Recoder, or NoRecoder
  rec_seen,    \* history: the recoder was built only from pieces the
               \* decoder had been given
  args         \* the arguments of the last constructor or coding call

vars == <<original, encoder, decoder, alive, op, result, output, seen, indep,
          kept, kept_seen, recoder, rec_seen, args>>

recVars == <<kept, kept_seen, recoder, rec_seen>>

NoRecoder == [err |-> "NoRecoder"]

Datas == UNION {[1..n -> DataBytes] : n \in 1..MaxDataLen}

K == encoder.piece_count
L == encoder.piece_byte_len
F == encoder.piece_count + encoder.piece_byte_len

CodingVectors == [1..K -> IF K <= MaxRichPieceCount THEN Coef ELSE BitCoef]

\* wrong-length pieces: every length within MaxBadLen of F except F itself,
\* filled with one byte
WrongLengthPieces ==
  {Vec([k \in 1..n |-> c]) :
     n \in {m \in (F - MaxBadLen)..(F + MaxBadLen) : m >= 0 /\ m # F},
     c \in BitCoef}

InitWith(data, piece_count) ==
  /\ original = data
  /\ encoder = Encoder_new(data, piece_count)
  /\ decoder = Decoder_new(encoder.piece_byte_len, encoder.piece_count).d
  /\ alive = TRUE
  /\ op = "new"
  /\ result = "Ok"
  /\ output = << >>
  /\ seen = {}
  /\ indep = FALSE
  /\ kept = << >>
  /\ kept_seen = TRUE
  /\ recoder = NoRecoder
  /\ rec_seen = FALSE
  /\ args = << >>

Init == \E data \in Datas, piece_count \in 1..MaxPieceCount :
          InitWith(data, piece_count)

\* ------------------------------------------------------------------------
\* Operations
\* ------------------------------------------------------------------------
\* one Decoder::decode call with its history bookkeeping
DecodeCall(full_coded_piece, name) ==
  \E r \in {decode(decoder, full_coded_piece)} :
  LET consumed == r.err \in {"Ok", "PieceNotUseful"}
      vec == SubSeq(full_coded_piece, 1, K)
  IN /\ alive
     /\ consumed => decoder.received_piece_count < MaxReceived
     /\ decoder' = r.d
     /\ result' = r.err
     /\ op' = name
     /\ seen' = IF consumed THEN SpanInsert(seen, vec) ELSE seen
     /\ indep' = (seen' # seen)
     /\ UNCHANGED <<original, encoder, alive, output, args>>

\* encoder.code_with_coding_vector(v) handed to decoder.decode
DecodeCoded(coding_vector) ==
  /\ DecodeCall(code_with_coding_vector(encoder, Vec(coding_vector)).piece,
                "decode")
  /\ UNCHANGED recVars

\* the same, the caller also appending the piece to its recoding buffer when
\* the decoder took it
DecodeCodedAndKeep(coding_vector) ==
  \E piece \in {code_with_coding_vector(encoder, Vec(coding_vector)).piece} :
    /\ recoder = NoRecoder
    /\ Len(kept) < MaxKept * F
    /\ DecodeCall(piece, "decode")
    /\ result' \in {"Ok", "PieceNotUseful"}
    /\ kept' = kept \o piece
    /\ UNCHANGED <<kept_seen, recoder, rec_seen>>

\* a coded piece appended to the recoding buffer without being decoded
CollectCoded(coding_vector) ==
  /\ alive
  /\ recoder = NoRecoder
  /\ decoder.received_piece_count = 0
  /\ Len(kept) < MaxKept * F
  /\ kept' = kept \o code_with_coding_vector(encoder,
                                             Vec(coding_vector)).piece
  /\ kept_seen' = FALSE
  /\ UNCHANGED <<original, encoder, decoder, alive, op, result, output,
                 seen, indep, recoder, rec_seen, args>>

\* Recoder::new over the recoding buffer, which it takes over
BuildRecoder ==
  /\ alive
  /\ recoder = NoRecoder
  /\ Len(kept) >= F
  /\ recoder' = Recoder_new(kept, F, K)
  /\ rec_seen' = kept_seen
  /\ kept' = << >>
  /\ UNCHANGED <<original, encoder, decoder, alive, op, result, output,
                 seen, indep, kept_seen, args>>

RecodingVectors ==
  IF recoder = NoRecoder THEN {}
  ELSE [1..recoder.num_pieces_received -> RecodingCoef]

\* recoder.recode with the sampled vector, handed to decoder.decode
DecodeRecoded(recoding_vector) ==
  /\ recoder # NoRecoder
  /\ DecodeCall(recode(recoder, Vec(recoding_vector)), "decode_recoded")
  /\ UNCHANGED recVars

\* decoder.decode on a piece of the wrong length
DecodeWrongLength(piece) ==
  /\ DecodeCall(piece, "decode_wrong_length")
  /\ UNCHANGED recVars

\* decoder.get_decoded_data(): consumes the decoder
GetDecodedData ==
  LET r == get_decoded_data(decoder)
  IN /\ alive
     /\ alive' = FALSE
     /\ op' = "get_decoded_data"
     /\ result' = r.err
     /\ output' = IF r.err = "Ok" THEN r.data ELSE << >>
     /\ UNCHANGED <<original, encoder, decoder, seen, indep, args>>
     /\ UNCHANGED recVars

Next ==
  \/ \E coding_vector \in CodingVectors : DecodeCoded(coding_vector)
  \/ \E piece \in WrongLengthPieces : DecodeWrongLength(piece)
  \/ GetDecodedData

Spec == Init /\ [][Next]_vars

\* Encoder, recoder and decoder together
RecoderDatas == {<<5, 129>>}

RecoderPieceCounts == {3}

InitR == \E data \in RecoderDatas, piece_count \in RecoderPieceCounts :
           InitWith(data, piece_count)

\* coding vectors of the direct-coded pieces in play: the unit vectors
RecoderCodingVectors ==
  {v \in [1..K -> BitCoef] :
     \E j \in 1..K : \A k \in 1..K : v[k] = (IF k = j THEN 1 ELSE 0)}

NextR ==
  \/ \E coding_vector \in RecoderCodingVectors : DecodeCoded(coding_vector)
  \/ \E coding_vector \in RecoderCodingVectors :
       DecodeCodedAndKeep(coding_vector)
  \/ \E coding_vector \in RecoderCodingVectors : CollectCoded(coding_vector)
  \/ BuildRecoder
  \/ \E recoding_vector \in RecodingVectors : DecodeRecoded(recoding_vector)

SpecR == InitR /\ [][NextR]_vars

\* A fresh decoder that is given recoded pieces only
NextO ==
  \/ \E coding_vector \in RecoderCodingVectors : CollectCoded(coding_vector)
  \/ BuildRecoder
  \/ \E recoding_vector \in RecodingVectors : DecodeRecoded(recoding_vector)

SpecO == InitR /\ [][NextO]_vars

\* A decoder fed pieces that arrive from elsewhere: any payload bytes behind
\* a unit coding vector
RawBytes == {0, 5, 129}

RawPieces ==
  {Vec([k \in 1..F |-> IF k <= K THEN (IF k = j THEN 1 ELSE 0)
                                 ELSE payload[k - K]]) :
     j \in 1..K, payload \in [1..L -> RawBytes]}

\* decoder.decode on a piece that did not come from the encoder
DecodeRaw(piece) ==
  /\ DecodeCall(piece, "decode_raw")
  /\ UNCHANGED recVars

NextF ==
  \/ \E piece \in RawPieces : DecodeRaw(piece)
  \/ GetDecodedData

SpecF == Init /\ [][NextF]_vars

\* The constructors and code_with_coding_vector called on arbitrary
\* arguments, one call from the start state (a coding call after a
\* successful Encoder::new)
NoEncoder == [err |-> "NoEncoder"]

NoDecoder == [err |-> "NoDecoder"]

ArgDatas == UNION {[1..n -> DataBytes] : n \in 0..MaxArgLen}

ArgCounts == 0..MaxArgCount

InitC ==
  /\ original = << >>
  /\ encoder = NoEncoder
  /\ decoder = NoDecoder
  /\ alive = TRUE
  /\ op = "start"
  /\ result = "Ok"
  /\ output = << >>
  /\ seen = {}
  /\ indep = FALSE
  /\ kept = << >>
  /\ kept_seen = TRUE
  /\ recoder = NoRecoder
  /\ rec_seen = FALSE
  /\ args = << >>

\* Encoder::new(data, piece_count)
EncoderNew(data, piece_count) ==
  /\ op = "start"
  /\ op' = "Encoder::new"
  /\ args' = [data |-> Vec(data), piece_count |-> piece_count]
  /\ original' = Vec(data)
  /\ encoder' = Encoder_new(Vec(data), piece_count)
  /\ result' = encoder'.err
  /\ UNCHANGED <<decoder, alive, output, seen, indep>>
  /\ UNCHANGED recVars

CodingVectorArgs ==
  IF encoder = NoEncoder \/ encoder.err # "Ok" THEN {}
  ELSE UNION {[1..n -> Coef] : n \in 0..(encoder.piece_count + 1)}

\* encoder.code_with_coding_vector(coding_vector)
CodeWithCodingVector(coding_vector) ==
  /\ op = "Encoder::new"
  /\ result = "Ok"
  /\ \E r \in {code_with_coding_vector(encoder, Vec(coding_vector))} :
    /\ op' = "code_with_coding_vector"
    /\ args' = [coding_vector |-> Vec(coding_vector)]
    /\ result' = r.err
    /\ output' = IF r.err = "Ok" THEN r.piece ELSE << >>
    /\ UNCHANGED <<original, encoder, decoder, alive, seen, indep>>
    /\ UNCHANGED recVars

\* Decoder::new(piece_byte_len, required_piece_count)
DecoderNew(piece_byte_len, required_piece_count) ==
  /\ op = "start"
  /\ \E r \in {Decoder_new(piece_byte_len, required_piece_count)} :
    /\ op' = "Decoder::new"
    /\ args' = [piece_byte_len |-> piece_byte_len,
                required_piece_count |-> required_piece_count]
    /\ result' = r.err
    /\ decoder' = IF r.err = "Ok" THEN r.d ELSE NoDecoder
    /\ UNCHANGED <<original, encoder, alive, output, seen, indep>>
    /\ UNCHANGED recVars

\* Recoder::new(data, full_coded_piece_byte_len, num_pieces_coded_together)
RecoderNew(data, full_coded_piece_byte_len, num_pieces_coded_together) ==
  /\ op = "start"
  /\ \E r \in Recoder_new_outcomes(Vec(data), full_coded_piece_byte_len,
                                    num_pieces_coded_together) :
    /\ op' = "Recoder::new"
    /\ args' = [data |-> Vec(data),
                full_coded_piece_byte_len |-> full_coded_piece_byte_len,
                num_pieces_coded_together |-> num_pieces_coded_together]
    /\ result' = r.err
    /\ recoder' = IF r.err = "Ok" THEN r ELSE NoRecoder
    /\ UNCHANGED <<original, encoder, decoder, alive, output, seen, indep,
                   kept, kept_seen, rec_seen>>

NextC ==
  \/ \E data \in ArgDatas, piece_count \in ArgCounts :
       EncoderNew(data, piece_count)
  \/ \E coding_vector \in CodingVectorArgs :
       CodeWithCodingVector(coding_vector)
  \/ \E piece_byte_len \in ArgCounts, required_piece_count \in ArgCounts :
       DecoderNew(piece_byte_len, required_piece_count)
  \/ \E data \in ArgDatas, full_coded_piece_byte_len \in ArgCounts,
        num_pieces_coded_together \in ArgCounts :
       RecoderNew(data, full_coded_piece_byte_len, num_pieces_coded_together)

SpecC == InitC /\ [][NextC]_vars

\* Field arithmetic on a pair of bytes
Bytes == 0..(GF256_ORDER - 1)

InitG ==
  /\ original = << >>
  /\ encoder = NoEncoder
  /\ decoder = NoDecoder
  /\ alive = TRUE
  /\ op = "start"
  /\ result = "Ok"
  /\ output = << >>
  /\ seen = {}
  /\ indep = FALSE
  /\ kept = << >>
  /\ kept_seen = TRUE
  /\ recoder = NoRecoder
  /\ rec_seen = FALSE
  /\ \E a \in Bytes, b \in Bytes : args = [a |-> a, b |-> b]

\* a + b, (a + b) - b, a * b, (a * b) / b, b.inv() and b * b.inv()
Gf256Operations ==
  /\ op = "start"
  /\ op' = "gf256_operations"
  /\ output' = [sum |-> gf_add(args.a, args.b),
                diff |-> gf_sub(gf_add(args.a, args.b), args.b),
                mul |-> mul_const(args.a, args.b),
                div |-> gf_div(mul_const(args.a, args.b), args.b),
                inv |-> gf_inv(args.b),
                mul_inv |-> IF gf_inv(args.b) = None THEN None
                            ELSE mul_const(args.b, gf_inv(args.b))]
  /\ UNCHANGED <<original, encoder, decoder, alive, result, seen, indep,
                 args>>
  /\ UNCHANGED recVars

NextG == Gf256Operations

SpecG == InitG /\ [][NextG]_vars

\* The shipped tables, walked index by index next to the powers of the
\* primitive element
InitT ==
  /\ original = << >>
  /\ encoder = NoEncoder
  /\ decoder = NoDecoder
  /\ alive = TRUE
  /\ op = "tables"
  /\ result = "Ok"
  /\ output = [exp |-> GF256_EXP_TABLE[1], power |-> 1]
  /\ seen = {}
  /\ indep = FALSE
  /\ kept = << >>
  /\ kept_seen = TRUE
  /\ recoder = NoRecoder
  /\ rec_seen = FALSE
  /\ args = [i |-> 0]

\* the next index of GF256_EXP_TABLE; the power is multiplied by
\* Gf256::primitive_element() once more
NextTableEntry ==
  /\ op = "tables"
  /\ args.i + 1 < Len(GF256_EXP_TABLE)
  /\ args' = [i |-> args.i + 1]
  /\ output' = [exp |-> GF256_EXP_TABLE[args.i + 2],
                power |-> mul_const(output.power, primitive_element)]
  /\ UNCHANGED <<original, encoder, decoder, alive, op, result, seen, indep>>
  /\ UNCHANGED recVars

NextT == NextTableEntry

SpecT == InitT /\ [][NextT]_vars

\* The vector kernels on slices of every length up to MaxVecLen, on each
\* path the CPU detection can select
VecLens == 0..MaxVecLen

\* the bytes of a slice of length n: an arithmetic progression from first
VecBytes(n, first) == Vec([k \in 1..n |-> (first + 37 * (k - 1)) % GF256_ORDER])

Scalars == {0, 1, 2, 3, 29, 142, 255}

InitV ==
  /\ original = << >>
  /\ encoder = NoEncoder
  /\ decoder = NoDecoder
  /\ alive = TRUE
  /\ op = "start"
  /\ result = "Ok"
  /\ output = << >>
  /\ seen = {}
  /\ indep = FALSE
  /\ kept = << >>
  /\ kept_seen = TRUE
  /\ recoder = NoRecoder
  /\ rec_seen = FALSE
  /\ args = << >>

\* gf256_inplace_mul_vec_by_scalar(vec, scalar)
MulVecByScalar(path, n, scalar) ==
  /\ op = "start"
  /\ op' = "gf256_inplace_mul_vec_by_scalar"
  /\ args' = [path |-> path, vec |-> VecBytes(n, 15), scalar |-> scalar]
  /\ output' = gf256_inplace_mul_vec_by_scalar_on(path, VecBytes(n, 15),
                                                  scalar)
  /\ UNCHANGED <<original, encoder, decoder, alive, result, seen, indep>>
  /\ UNCHANGED recVars

\* gf256_inplace_add_vectors(vec_dst, vec_src)
AddVectors(path, n, m) ==
  /\ op = "start"
  /\ op' = "gf256_inplace_add_vectors"
  /\ args' = [path |-> path, vec_dst |-> VecBytes(n, 15),
              vec_src |-> VecBytes(m, 200)]
  /\ output' = gf256_inplace_add_vectors_on(path, VecBytes(n, 15),
                                            VecBytes(m, 200))
  /\ UNCHANGED <<original, encoder, decoder, alive, result, seen, indep>>
  /\ UNCHANGED recVars

\* gf256_inplace_mul_vec_by_scalar_then_add_into_vec(add_into_vec, mul_vec,
\* scalar)
MulVecByScalarThenAddIntoVec(path, n, m, scalar) ==
  /\ op = "start"
  /\ op' = "gf256_inplace_mul_vec_by_scalar_then_add_into_vec"
  /\ args' = [path |-> path, vec_dst |-> VecBytes(n, 15),
              vec_src |-> VecBytes(m, 200), scalar |-> scalar]
  /\ output' = gf256_inplace_mul_vec_by_scalar_then_add_into_vec_on(
                  path, VecBytes(n, 15), VecBytes(m, 200), scalar)
  /\ UNCHANGED <<original, encoder, decoder, alive, result, seen, indep>>
  /\ UNCHANGED recVars

\* the rows of the two lane tables that a kernel loads for a scalar
LoadMulTableRows(scalar) ==
  /\ op = "start"
  /\ op' = "load_mul_table_rows"
  /\ args' = [scalar |-> scalar]
  /\ output' = [l_tbl |-> GF256_SIMD_MUL_TABLE_LOW(scalar),
                h_tbl |-> GF256_SIMD_MUL_TABLE_HIGH(scalar)]
  /\ UNCHANGED <<original, encoder, decoder, alive, result, seen, indep>>
  /\ UNCHANGED recVars

NextV ==
  \/ /\ op = "start"
     /\ \E scalar \in Bytes : LoadMulTableRows(scalar)
  \/ /\ op = "start"
     /\ \E path \in SimdPaths, n \in VecLens, scalar \in Scalars :
          MulVecByScalar(path, n, scalar)
  \/ /\ op = "start"
     /\ \E path \in SimdPaths, n \in VecLens, m \in VecLens :
          AddVectors(path, n, m)
  \/ /\ op = "start"
     /\ \E path \in SimdPaths, n \in VecLens, m \in VecLens,
           scalar \in Scalars :
          MulVecByScalarThenAddIntoVec(path, n, m, scalar)

SpecV == InitV /\ [][NextV]_vars

\* ------------------------------------------------------------------------
\* Properties
\* ------------------------------------------------------------------------
DecodeOps == {"decode", "decode_recoded", "decode_wrong_length"}

Consumed == op \in DecodeOps /\ result \in {"Ok", "PieceNotUseful"}

\* C1: round trip. get_decoded_data on a complete decoder, fed any coded
\* pieces of the encoder, returns Ok with exactly the bytes given to
\* Encoder::new, also for data holding 0x81 or ending in zero bytes.
C1_RoundTrip ==
  (op = "get_decoded_data" /\ is_already_decoded(decoder))
    => (result = "Ok" /\ output = original)

C1_Witness ==
  /\ op = "get_decoded_data"
  /\ result = "Ok"
  /\ original = <<129>>
  /\ output = original
  /\ K = 3

\* C2: on a not yet complete decoder and a piece of the right length,
\* decode returns Ok exactly when the piece's coding vector is linearly
\* independent of those of the pieces passed before, PieceNotUseful exactly
\* when it is dependent.
C2_UsefulIffIndependent ==
  (op = "decode" /\ result \in {"Ok", "PieceNotUseful"})
    => ((result = "Ok") <=> indep)

\* C3 as stated: useful_piece_count == matrix.rank() <= received_piece_count
\* <= K after any sequence of decode calls.
C3_CountsWithinK ==
  /\ decoder.useful_piece_count = rank(decoder.matrix)
  /\ rank(decoder.matrix) <= decoder.received_piece_count
  /\ decoder.received_piece_count <= K

\* C3 amended: useful_piece_count == matrix.rank() <= received_piece_count
\* and matrix.rank() <= K; received_piece_count itself is not bounded by K.
C3_Counts ==
  /\ decoder.useful_piece_count = rank(decoder.matrix)
  /\ rank(decoder.matrix) <= decoder.received_piece_count
  /\ rank(decoder.matrix) <= K

C3_Witness ==
  /\ Consumed
  /\ decoder.received_piece_count > K
  /\ decoder.useful_piece_count > 0

\* C4: is_already_decoded() holds iff get_useful_piece_count() == K, iff
\* get_remaining_piece_count() == 0.
C4_DecodedIffUsefulIsK ==
  /\ is_already_decoded(decoder) <=> (decoder.useful_piece_count = K)
  /\ is_already_decoded(decoder) <=> (get_remaining_piece_count(decoder) = 0)

C4_Witness ==
  /\ is_already_decoded(decoder)
  /\ decoder.useful_piece_count = K
  /\ decoder.received_piece_count > K

\* C5: a piece recoded by a recoder built only from pieces the decoder has
\* been given makes decode return PieceNotUseful and never raises the rank
\* or the useful count.
C5_RecodedFromSeenIsUseless ==
  [][(op' = "decode_recoded" /\ rec_seen /\ ~is_already_decoded(decoder))
       => /\ result' = "PieceNotUseful"
          /\ rank(decoder'.matrix) <= rank(decoder.matrix)
          /\ decoder'.useful_piece_count <= decoder.useful_piece_count]_vars

\* C6: with direct-coded and recoded pieces mixed, the decoder is complete,
\* and get_decoded_data succeeds, iff the coding vectors received so far
\* contain K linearly independent ones.
C6_CompleteIffFullRank ==
  /\ is_already_decoded(decoder) <=> (TrueRank(seen) = K)
  /\ (get_decoded_data(decoder).err = "Ok") <=> (TrueRank(seen) = K)

C6_Witness ==
  /\ op = "decode_recoded"
  /\ result = "Ok"
  /\ ~rec_seen
  /\ is_already_decoded(decoder)
  /\ TrueRank(seen) = K
  /\ get_decoded_data(decoder).err = "Ok"

\* C7: the useful piece count never decreases; a decode returning Ok raises
\* it by exactly one, a decode returning PieceNotUseful leaves it equal.
C7_RankMonotone ==
  [][(op' \in DecodeOps)
       => /\ decoder'.useful_piece_count >= decoder.useful_piece_count
          /\ (result' = "Ok") =>
               decoder'.useful_piece_count = decoder.useful_piece_count + 1
          /\ (result' = "PieceNotUseful") =>
               decoder'.useful_piece_count = decoder.useful_piece_count]_vars

\* C8: decode of a piece whose length is not K+L on a not yet complete
\* decoder returns InvalidPieceLength and leaves the decoder as it was.
C8_WrongLengthRejected ==
  [][(op' = "decode_wrong_length" /\ ~is_already_decoded(decoder))
       => (result' = "InvalidPieceLength" /\ decoder' = decoder)]_vars

C8_Witness ==
  /\ op = "decode_wrong_length"
  /\ result = "InvalidPieceLength"
  /\ decoder.received_piece_count > 0
  /\ decoder.useful_piece_count > 0

\* C9: once the decoder is complete every decode call, whatever the piece
\* and its length, returns ReceivedAllPieces and changes nothing.
C9_CompleteIsAbsorbing ==
  [][(op' \in DecodeOps /\ is_already_decoded(decoder))
       => (result' = "ReceivedAllPieces" /\ decoder' = decoder)]_vars

C9_Witness ==
  /\ op = "decode_wrong_length"
  /\ result = "ReceivedAllPieces"
  /\ is_already_decoded(decoder)

\* C10: get_decoded_data on a decoder whose rank is below K returns
\* NotAllPiecesReceivedYet, in Empty and in every Partial(r).
C10_NotAllPiecesReceivedYet ==
  (op = "get_decoded_data" /\ rank(decoder.matrix) < K)
    => result = "NotAllPiecesReceivedYet"

C10_Witness ==
  /\ op = "get_decoded_data"
  /\ result = "NotAllPiecesReceivedYet"
  /\ rank(decoder.matrix) > 0
  /\ rank(decoder.matrix) < K
  /\ decoder.received_piece_count >= K

\* the payload halves of the K rows of a complete decoder, in row order
RecoveredStream(d) ==
  Vec([k \in 1..(d.required_piece_count * d.piece_byte_len) |->
         d.matrix.elements[((k - 1) \div d.piece_byte_len)
                             * (d.required_piece_count + d.piece_byte_len)
                           + d.required_piece_count
                           + ((k - 1) % d.piece_byte_len) + 1]])

\* 1-based position of the last 0x81 of a stream, 0 when there is none
LastMarker(stream) ==
  IF \E k \in 1..Len(stream) : stream[k] = 129
  THEN CHOOSE k \in 1..Len(stream) :
         stream[k] = 129 /\ \A k2 \in (k + 1)..Len(stream) : stream[k2] # 129
  ELSE 0

Malformed(stream) ==
  \/ LastMarker(stream) = 0
  \/ LastMarker(stream) = 1
  \/ \E k \in (LastMarker(stream) + 1)..Len(stream) : stream[k] # 0

\* C11: get_decoded_data on a complete decoder returns
\* InvalidDecodedDataFormat when the recovered payload stream has no 0x81,
\* has its last 0x81 at index 0 or has a non-zero byte after it, and
\* otherwise returns the stream cut at the last 0x81.
C11_MalformedPayload ==
  (op = "get_decoded_data" /\ is_already_decoded(decoder))
    => IF Malformed(RecoveredStream(decoder))
       THEN result = "InvalidDecodedDataFormat"
       ELSE /\ result = "Ok"
            /\ output = SubSeq(RecoveredStream(decoder), 1,
                               LastMarker(RecoveredStream(decoder)) - 1)

C11_Witness ==
  /\ op = "get_decoded_data"
  /\ is_already_decoded(decoder)
  /\ result = "InvalidDecodedDataFormat"
  /\ K = 3
  /\ RecoveredStream(decoder) = <<5, 129, 5>>

\* sum over GF(2^8) of the first n entries of a sequence
RECURSIVE GfSum(_, _)
GfSum(f, n) == IF n = 0 THEN 0 ELSE gf_add(GfSum(f, n - 1), f[n])

\* byte b of sum_i c[i] * piece_i, the pieces of width w lying one after the
\* other in buffer from offset off inside a stride of stride bytes
LinearByte(c, buffer, stride, off, b) ==
  GfSum([i \in 1..Len(c) |->
           mul_const(c[i], buffer[(i - 1) * stride + off + b])], Len(c))

\* a full piece is valid for the source pieces D: payload = sum_j vec[j]*D_j
ValidPiece(piece, D, num_pieces, piece_len) ==
  /\ Len(piece) = num_pieces + piece_len
  /\ \A b \in 1..piece_len :
       piece[num_pieces + b]
         = LinearByte(SubSeq(piece, 1, num_pieces), D, piece_len, 0, b)

\* C12: for a recoder built from valid full coded pieces and any recoding
\* vector r, recode returns F bytes: the first K are r*CV, the last L are
\* sum_k r[k]*payload_k, and together they are again a valid coded piece of
\* the K source pieces.
C12_RecodedPieceIsValid ==
  [][(recoder = NoRecoder /\ recoder' # NoRecoder /\ recoder'.err = "Ok")
       => \A r \in [1..(Len(kept) \div F) -> Coef] :
            LET out == recode(recoder', Vec(r))
            IN /\ Len(out) = F
               /\ \A j \in 1..K :
                    out[j] = LinearByte(Vec(r), kept, F, 0, j)
               /\ \A b \in 1..L :
                    out[K + b] = LinearByte(Vec(r), kept, F, K, b)
               /\ ValidPiece(out, encoder.data, K, L)]_vars

C12_Witness ==
  /\ op = "decode_recoded"
  /\ result = "Ok"
  /\ recoder # NoRecoder
  /\ recoder.num_pieces_received = 2
  /\ recoder.coding_vectors = <<0, 1, 0, 1, 0, 0>>

\* C13: Recoder::new(data, F, K) returns NotEnoughPiecesToRecode whenever
\* data holds fewer than F bytes (F and K being otherwise acceptable), and
\* builds no recoder.
C13_NotEnoughPiecesToRecode ==
  (/\ op = "Recoder::new"
   /\ args.num_pieces_coded_together >= 1
   /\ args.full_coded_piece_byte_len > args.num_pieces_coded_together
   /\ Len(args.data) < args.full_coded_piece_byte_len)
    => (result = "NotEnoughPiecesToRecode" /\ recoder = NoRecoder)

\* the quotient a / b rounded up, and rounded down
CeilOf(a, b) == CHOOSE n \in 0..a : n * b >= a /\ (n = 0 \/ (n - 1) * b < a)

FloorOf(a, b) == CHOOSE n \in 0..a : n * b <= a /\ a < (n + 1) * b

\* C16: Encoder::new(data, K) with non-empty data and K >= 1 succeeds with
\* L = ceil((len(data)+1)/K) and a buffer of K*L bytes: data, then 0x81 at
\* offset len(data), then zeros; the full coded piece length is K + L.
C16_EncoderLayout ==
  (op = "Encoder::new" /\ Len(args.data) > 0 /\ args.piece_count >= 1)
    => /\ result = "Ok"
       /\ encoder.piece_count = args.piece_count
       /\ encoder.piece_byte_len
            = CeilOf(Len(args.data) + 1, args.piece_count)
       /\ Len(encoder.data) = encoder.piece_count * encoder.piece_byte_len
       /\ \A k \in 1..Len(encoder.data) :
            encoder.data[k] = IF k <= Len(args.data) THEN args.data[k]
                              ELSE IF k = Len(args.data) + 1 THEN 129
                              ELSE 0
       /\ Encoder_get_full_coded_piece_byte_len(encoder)
            = encoder.piece_count + encoder.piece_byte_len

C16_Witness ==
  /\ op = "Encoder::new"
  /\ result = "Ok"
  /\ args.data = <<129, 0>>
  /\ args.piece_count = 2
  /\ encoder.data = <<129, 0, 129, 0>>

\* C17: code_with_coding_vector(c) returns CodingVectorLengthMismatch when
\* len(c) # K; otherwise K+L bytes, the first K equal to c and the last L
\* equal to sum_i c[i] * D_i; the encoder is left as it was.
C17_CodeWithCodingVector ==
  [][(op' = "code_with_coding_vector")
       => /\ encoder' = encoder
          /\ IF Len(args'.coding_vector) # encoder.piece_count
             THEN result' = "CodingVectorLengthMismatch"
             ELSE /\ result' = "Ok"
                  /\ Len(output') = encoder.piece_count
                                      + encoder.piece_byte_len
                  /\ SubSeq(output', 1, encoder.piece_count)
                       = args'.coding_vector
                  /\ \A b \in 1..encoder.piece_byte_len :
                       output'[encoder.piece_count + b]
                         = LinearByte(args'.coding_vector, encoder.data,
                                      encoder.piece_byte_len, 0, b)]_vars

C17_Witness ==
  /\ op = "code_with_coding_vector"
  /\ result = "Ok"
  /\ encoder.data = <<129, 129, 129, 0>>
  /\ args.coding_vector = <<2, 1>>
  /\ output = <<2, 1, 158, 31>>

\* C18: Encoder::new returns DataLengthZero for empty data, PieceCountZero
\* for K = 0 with data; Decoder::new returns PieceLengthZero for L = 0,
\* PieceCountZero for K = 0 with L > 0; every other input gives Ok, the new
\* decoder having received and useful counts 0.
C18_ZeroSizedInputs ==
  /\ (op = "Encoder::new")
       => result = IF Len(args.data) = 0 THEN "DataLengthZero"
                   ELSE IF args.piece_count = 0 THEN "PieceCountZero"
                   ELSE "Ok"
  /\ (op = "Decoder::new")
       => /\ result = IF args.piece_byte_len = 0 THEN "PieceLengthZero"
                      ELSE IF args.required_piece_count = 0
                      THEN "PieceCountZero"
                      ELSE "Ok"
          /\ (result = "Ok")
               => /\ decoder.received_piece_count = 0
                  /\ decoder.useful_piece_count = 0
                  /\ rank(decoder.matrix) = 0

C18_Witness ==
  /\ op = "Decoder::new"
  /\ args.piece_byte_len = 0
  /\ args.required_piece_count = 0
  /\ result = "PieceLengthZero"

\* C19: Recoder::new(data, F, K) with non-empty data returns PieceLengthZero
\* if F = 0, else PieceCountZero if K = 0, else PieceLengthTooShort if
\* F <= K; on success the recoder reports floor(len(data)/F) pieces recoded
\* together and piece length F - K.
C19_RecoderNewChecks ==
  (op = "Recoder::new" /\ Len(args.data) > 0)
    => /\ (args.full_coded_piece_byte_len = 0)
            => result = "PieceLengthZero"
       /\ (args.full_coded_piece_byte_len # 0
             /\ args.num_pieces_coded_together = 0)
            => result = "PieceCountZero"
       /\ (/\ args.full_coded_piece_byte_len # 0
           /\ args.num_pieces_coded_together # 0
           /\ args.full_coded_piece_byte_len
                <= args.num_pieces_coded_together)
            => result = "PieceLengthTooShort"
       /\ (result = "Ok")
            => /\ Recoder_get_num_pieces_recoded_together(recoder)
                    = FloorOf(Len(args.data), args.full_coded_piece_byte_len)
               /\ Recoder_get_piece_byte_len(recoder)
                    = args.full_coded_piece_byte_len
                      - args.num_pieces_coded_together

C19_Witness ==
  /\ op = "Recoder::new"
  /\ result = "Ok"
  /\ Len(args.data) = 4
  /\ args.full_coded_piece_byte_len = 2
  /\ Recoder_get_num_pieces_recoded_together(recoder) = 2
  /\ recoder.encoder.err = "Ok"

\* the full coded pieces of the decoder's length with an all-zero coding vector
ZeroVectorPieces ==
  {Vec([k \in 1..F |-> IF k <= K THEN 0 ELSE payload[k - K]]) :
     payload \in [1..L -> DataBytes]}

\* C15: in every reachable state of a decoder that is not complete, decoding
\* a piece with an all-zero coding vector returns PieceNotUseful, adds one to
\* the received count and leaves the useful count as it was.
C15_ZeroVectorNotUseful ==
  (alive /\ ~is_already_decoded(decoder))
    => \A piece \in ZeroVectorPieces :
         LET r == decode(decoder, piece)
         IN /\ r.err = "PieceNotUseful"
            /\ r.d.received_piece_count = decoder.received_piece_count + 1
            /\ r.d.useful_piece_count = decoder.useful_piece_count

C15_Witness ==
  /\ op = "decode"
  /\ result = "PieceNotUseful"
  /\ decoder.received_piece_count = 1
  /\ decoder.useful_piece_count = 0
  /\ K = 3
  /\ ~is_already_decoded(decoder)

\* C14: a fresh decoder given only pieces recoded by a recoder built from R
\* coded pieces never has rank, or useful piece count, above R.
C14_RankWithinRecoderPieces ==
  (recoder # NoRecoder)
    => /\ rank(decoder.matrix) <= recoder.num_pieces_received
       /\ decoder.useful_piece_count <= recoder.num_pieces_received

\* the coefficient part of row i (0-based) of a decoder matrix
CoefRow(m, i) ==
  Vec([c \in 1..m.num_pieces_coded_together |-> At(m, i, c - 1)])

\* C20: after every decode the rows of the decoder matrix are in reduced row
\* echelon form on their first K columns: no row has an all-zero coefficient
\* part, each row's leading coefficient is 1 and is alone in its column, and
\* the leading columns move strictly right from row to row.
C20_MatrixIsRREF ==
  LET m == decoder.matrix
      lead(i) == IF IsZeroVec(CoefRow(m, i)) THEN 0 ELSE Lead(CoefRow(m, i))
  IN \A i \in 0..(m.rows - 1) :
       /\ lead(i) # 0
       /\ At(m, i, lead(i) - 1) = 1
       /\ \A j \in 0..(m.rows - 1) : j # i => At(m, j, lead(i) - 1) = 0
       /\ i > 0 => lead(i - 1) < lead(i)

\* C21: for all bytes a and all b # 0, (a*b)/b = a and b * inv(b) = 1;
\* inv(0) is None, a/0 is None and a*0 = 0; (a+b)-b = a for all a, b.
C21_InverseAndDivision ==
  (op = "gf256_operations")
    => /\ output.diff = args.a
       /\ (args.b # 0) => /\ output.div = args.a
                          /\ output.mul_inv = 1
       /\ (args.b = 0) => /\ output.inv = None
                          /\ output.div = None
                          /\ output.mul = 0

C21_Witness ==
  /\ op = "gf256_operations"
  /\ args = [a |-> 255, b |-> 142]
  /\ output.mul # 0
  /\ output.div = 255
  /\ output.inv # None
  /\ output.mul_inv = 1

\* multiplication by x modulo a polynomial of degree 8 over GF(2)
XTime(v, poly) == IF 2 * v >= 256 THEN BitXor(2 * v, poly, 9) ELSE 2 * v

\* the product of two polynomials of degree < 8 modulo the polynomial
RECURSIVE PolyMul(_, _, _)
PolyMul(a, b, poly) ==
  IF b = 0 THEN 0
  ELSE BitXor(IF b % 2 = 1 THEN a ELSE 0,
              PolyMul(XTime(a, poly), b \div 2, poly), 8)

\* x^i modulo the polynomial, by squaring
RECURSIVE XPower(_, _)
XPower(i, poly) ==
  IF i = 0 THEN 1
  ELSE IF i % 2 = 1 THEN XTime(XPower(i - 1, poly), poly)
  ELSE LET h == XPower(i \div 2, poly) IN PolyMul(h, h, poly)

\* at the walked index i: exp[i] is x^i modulo the polynomial, with period
\* 255; log inverts exp; mul_const is multiplication modulo the polynomial
TablesMatchPolynomial(poly) ==
  (op = "tables")
    => /\ Len(GF256_EXP_TABLE) = 510
       /\ Len(GF256_LOG_TABLE) = 256
       /\ output.exp = XPower(args.i, poly)
       /\ output.power = output.exp
       /\ (args.i + 255 < 510)
            => GF256_EXP_TABLE[args.i + 255 + 1] = output.exp
       /\ (args.i < 255) => GF256_LOG_TABLE[output.exp + 1] = args.i
       /\ output.exp \in 1..255
       /\ GF256_EXP_TABLE[GF256_LOG_TABLE[output.exp + 1] + 1] = output.exp
       /\ \A b \in Bytes :
            /\ mul_const(output.exp, b) = PolyMul(output.exp, b, poly)
            /\ mul_const(0, b) = 0

\* C22 (as stated): the exp table holds the powers of 2 modulo 0x11B, with
\* period 255, the log table is its inverse on 1..255, and mul_const is
\* multiplication in the field of that polynomial.
C22_TablesOfAesPolynomial == TablesMatchPolynomial(283)

\* C22 (amended): the same for the polynomial x^8 + x^4 + x^3 + x^2 + 1,
\* which is 0x11D.
C22_TablesOfShippedPolynomial == TablesMatchPolynomial(285)

C22_Witness ==
  /\ op = "tables"
  /\ args.i = 263
  /\ output.exp = 29
  /\ output.power = 29
  /\ XPower(8, 283) = 27

\* C23: gf256_inplace_mul_vec_by_scalar(vec, s) leaves vec[i] =
\* mul(vec_old[i], s) for every i, for every length and scalar, on the
\* 32-byte-lane, 16-byte-lane and scalar paths alike; the lane tables hold
\* T_low[s][n] = mul(s, n) and T_high[s][n] = mul(s, n << 4), and
\* T_low[s][b & 0x0f] XOR T_high[s][b >> 4] is mul(b, s) for every byte b.
C23_MulVecByScalar ==
  /\ (op = "gf256_inplace_mul_vec_by_scalar")
       => /\ Len(output) = Len(args.vec)
          /\ \A i \in 1..Len(output) :
               output[i] = mul_const(args.vec[i], args.scalar)
  /\ (op = "load_mul_table_rows")
       => /\ \A n \in 0..(GF256_HALF_ORDER - 1) :
               /\ output.l_tbl[n + 1] = mul_const(args.scalar, n)
               /\ output.h_tbl[n + 1] = mul_const(args.scalar, n * 16)
               /\ output.l_tbl[GF256_HALF_ORDER + n + 1] = output.l_tbl[n + 1]
               /\ output.h_tbl[GF256_HALF_ORDER + n + 1] = output.h_tbl[n + 1]
          /\ \A b \in Bytes :
               gf_add(output.l_tbl[(b % 16) + 1],
                      output.h_tbl[(b \div 16) + 1])
                 = mul_const(b, args.scalar)

C23_Witness ==
  /\ op = "gf256_inplace_mul_vec_by_scalar"
  /\ args.path = "avx2"
  /\ Len(args.vec) = 33
  /\ args.scalar = 142
  /\ output[32] = mul_const(args.vec[32], 142)
  /\ output[33] = mul_const(args.vec[33], 142)
  /\ output # args.vec

\* C24: gf256_inplace_add_vectors(dst, src) and
\* gf256_inplace_mul_vec_by_scalar_then_add_into_vec(dst, src, s) leave
\* dst[i] = dst_old[i] XOR src[i] (resp. XOR mul(src[i], s)) for every
\* i < min(len(dst), len(src)) and dst[i] unchanged for i >= min, for any
\* two slice lengths, on every path.
C24_AddAndFusedMulAdd ==
  LET min == Min(Len(args.vec_dst), Len(args.vec_src))
  IN /\ (op = "gf256_inplace_add_vectors")
          => /\ Len(output) = Len(args.vec_dst)
             /\ \A i \in 1..Len(output) :
                  output[i] = IF i <= min
                              THEN gf_add(args.vec_dst[i], args.vec_src[i])
                              ELSE args.vec_dst[i]
     /\ (op = "gf256_inplace_mul_vec_by_scalar_then_add_into_vec")
          => /\ Len(output) = Len(args.vec_dst)
             /\ \A i \in 1..Len(output) :
                  output[i] = IF i <= min
                              THEN gf_add(args.vec_dst[i],
                                          mul_const(args.vec_src[i],
                                                    args.scalar))
                              ELSE args.vec_dst[i]

\* C25: after every rref on a matrix built by add_row calls, rank() equals
\* the true rank over GF(2^8) of the coefficient parts of all the rows ever
\* appended.
C25_RankIsTrueRank == rank(decoder.matrix) = TrueRank(seen)

\* C26: when decode returns PieceNotUseful the matrix after the call has the
\* same rows, in the same order and with the same bytes, as before the call;
\* of the decoder only received_piece_count has changed, by +1.
C26_UselessPieceLeavesMatrix ==
  [][(op' \in DecodeOps /\ result' = "PieceNotUseful")
       => /\ decoder'.matrix = decoder.matrix
          /\ decoder' = [decoder EXCEPT !.received_piece_count = @ + 1]]_vars

\* C27: received_piece_count rises by exactly one on every decode call that
\* returns Ok or PieceNotUseful and is unchanged on every call that returns
\* ReceivedAllPieces or InvalidPieceLength: each call adds one exactly when
\* the piece is correctly sized and the decoder is not yet complete.
C27_ReceivedCount ==
  [][(op' \in DecodeOps)
       => /\ (result' \in {"Ok", "PieceNotUseful"})
               => decoder'.received_piece_count
                    = decoder.received_piece_count + 1
          /\ (result' \in {"ReceivedAllPieces", "InvalidPieceLength"})
               => decoder'.received_piece_count
                    = decoder.received_piece_count
          /\ decoder'.received_piece_count
               = decoder.received_piece_count
                 + (IF op' # "decode_wrong_length"
                       /\ ~is_already_decoded(decoder)
                    THEN 1 ELSE 0)]_vars

C27_Witness ==
  /\ op = "decode"
  /\ result = "PieceNotUseful"
  /\ decoder.received_piece_count = 3
  /\ decoder.useful_piece_count = 1
  /\ ~is_already_decoded(decoder)

\* the payload part of row i (0-based) of a decoder matrix
PayloadRow(m, i) ==
  Slice(m.elements, i * m.cols + m.num_pieces_coded_together,
        (i + 1) * m.cols)

\* C28: whenever the decoder is complete (matrix rank = K) the first K
\* columns of its K rows are the K x K identity, row i's payload is original
\* piece i, and the payloads in row order are the encoder's padded buffer.
C28_CompleteIsIdentity ==
  (rank(decoder.matrix) = K)
    => /\ decoder.matrix.rows = K
       /\ \A i \in 0..(K - 1), j \in 0..(K - 1) :
            At(decoder.matrix, i, j) = (IF i = j THEN 1 ELSE 0)
       /\ \A i \in 0..(K - 1) :
            PayloadRow(decoder.matrix, i)
              = SubSeq(encoder.data, i * L + 1, (i + 1) * L)
       /\ RecoveredStream(decoder) = encoder.data

C28_Witness ==
  /\ op = "decode"
  /\ result = "Ok"
  /\ K = 3
  /\ rank(decoder.matrix) = K
  /\ original = <<129>>
  /\ RecoveredStream(decoder) = <<129, 129, 0>>
  /\ decoder.received_piece_count = 3
  /\ PayloadRow(decoder.matrix, 2) = <<0>>

\* a basis of the span of the coefficient parts of the first n rows
RECURSIVE RowBasis(_, _)
RowBasis(m, n) ==
  IF n = 0 THEN {} ELSE SpanInsert(RowBasis(m, n - 1), CoefRow(m, n - 1))

\* C29: the pieces given to decode all satisfying payload = sum_j vec[j]*D_j
\* for the encoder's pieces D, after any sequence of decode calls every row
\* of the matrix satisfies the same equation, and the row space of the
\* coefficient parts is the span of the coding vectors of the correctly
\* sized pieces received so far.
C29_RowsStayConsistent ==
  LET m == decoder.matrix
      rows == RowBasis(m, m.rows)
  IN /\ \A i \in 0..(m.rows - 1) :
          ValidPiece(Slice(m.elements, i * m.cols, (i + 1) * m.cols),
                     encoder.data, K, L)
     /\ \A i \in 0..(m.rows - 1) : InSpan(CoefRow(m, i), seen)
     /\ \A v \in seen : InSpan(v, rows)

C29_Witness ==
  /\ op = "decode"
  /\ result = "PieceNotUseful"
  /\ K = 3
  /\ decoder.matrix.rows = 2
  /\ TrueRank(seen) = 2
  /\ decoder.received_piece_count = 3
  /\ CoefRow(decoder.matrix, 0) = <<1, 0, 1>>
  /\ original = <<129>>
  /\ PayloadRow(decoder.matrix, 0) = <<129>>

\* the matrices rref() is run on from the current state: the decoder's
\* matrix with one more coded piece appended
RrefInputs ==
  IF ~alive \/ is_already_decoded(decoder) THEN {}
  ELSE {add_row(decoder.matrix,
                code_with_coding_vector(encoder, Vec(v)).piece).m :
          v \in CodingVectors}

\* C30: in every rref() run each division and inversion is by a non-zero
\* pivot E[(i,i)], and swap_rows is only called with its first index
\* strictly below the second and both below rows.
C30_UncheckedOperationsAreSafe ==
  \A m \in RrefInputs :
    \A u \in rref_unchecked(m) :
      /\ (u.kind \in {"div", "inv"}) => u.a # 0
      /\ (u.kind = "swap_rows") => (u.a < u.b /\ u.b < u.rows)

C30_Witness ==
  /\ op = "decode"
  /\ K = 3
  /\ decoder.matrix.rows = 2
  /\ \E m \in RrefInputs :
       /\ \E u \in rref_unchecked(m) : u.kind = "swap_rows"
       /\ \E u \in rref_unchecked(m) : u.kind = "div"

====
